---- MODULE Spec2Model ----
(***************************************************************************)
(* Learn/Train.py: the PPO training script of the deer agent.              *)
(*                                                                         *)
(* The module models the script's control flow (load-or-create, the        *)
(* training call, the except/finally around it) and the episode-statistics *)
(* callback RewardDebugCallback that the training call notifies after      *)
(* every environment step.  The Unity environment and the PPO optimiser    *)
(* are external: the environment is the source of the step metadata, the   *)
(* optimiser is the loop that delivers it to the callback.                 *)
(*                                                                         *)
(* Python dictionaries are functions with a set of strings as domain, so   *)
(* that `k in d` is k \in DOMAIN d and d[k] on a missing key is a KeyError. *)
(* Python lists are sequences (index 0 is element 1).                      *)
(* Printed numbers are fixed point: "{:.2f}" is an integer number of       *)
(* hundredths, "{:.1f}" an integer number of tenths.                       *)
(***************************************************************************)
EXTENDS Integers, Sequences, FiniteSets, TLC

VARIABLES
    pc,               \* position of the script: start, learn, except, finally, exit
    exc,              \* the exception in flight ("none" when there is none)
    learnExit,        \* how the model.learn call ended ("none" while it has not)
    fileExists,       \* whether MODEL_PATH exists on disk
    startedWithFile,  \* whether MODEL_PATH existed when the script started
    loads,            \* calls of PPO.load
    creates,          \* constructions of a fresh PPO model
    saves,            \* calls of model.save
    written,          \* completed writes of the artifact
    episode_rewards,  \* RewardDebugCallback.episode_rewards
    episode_lengths,  \* RewardDebugCallback.episode_lengths
    locals,           \* RewardDebugCallback.locals at the latest notification
    lastRet,          \* outcome of the latest _on_step: none, True, False, raised
    out,              \* standard output, one record per printed line
    num_timesteps,    \* on-step notifications delivered so far
    episodes          \* payloads of the 'episode' markers delivered so far, in call order

vars == <<pc, exc, learnExit, fileExists, startedWithFile, loads, creates, saves,
          written, episode_rewards, episode_lengths, locals, lastRet, out,
          num_timesteps, episodes>>

(***************************************************************************)
(* Bounds of the model.                                                    *)
(***************************************************************************)
\* Stands in for total_timesteps (200_000): the training call returns after
\* this many steps.
MaxTimesteps == 21
\* How many completed episodes may report the off-pattern outcome.
MaxOdd == 1

(***************************************************************************)
(* Program constants.                                                      *)
(***************************************************************************)
PrintEvery == 10
Window == 10

(***************************************************************************)
(* Python helpers.                                                         *)
(***************************************************************************)
EmptyDict == [k \in {} |-> 0]

\* dict.get(key, default)
Get(d, key, default) == IF key \in DOMAIN d THEN d[key] ELSE default

RECURSIVE SumSeq(_)
SumSeq(s) == IF s = <<>> THEN 0 ELSE Head(s) + SumSeq(Tail(s))

\* s[-n:]
LastNWhole(s, n) == s
LastN(s, n) == SubSeq(s, IF Len(s) > n THEN Len(s) - n + 1 ELSE 1, Len(s))

\* np.mean of a non-empty list, as the exact fraction num/den
Mean(s) == [num |-> SumSeq(s), den |-> Len(s)]

\* a/b rounded to the nearest integer, ties to even (b > 0)
RoundHalfEven(a, b) ==
    LET q == a \div b
        r == a % b
    IN  IF 2 * r < b THEN q
        ELSE IF 2 * r > b THEN q + 1
        ELSE IF q % 2 = 0 THEN q ELSE q + 1

\* f"{x:.2f}" and f"{x:.1f}" of the fraction x: hundredths and tenths
Format2f(x) == RoundHalfEven(x.num * 100, x.den)
Format1f(x) == RoundHalfEven(x.num * 10, x.den)

Line(tag) == [tag |-> tag, avg_reward |-> 0, avg_length |-> 0]

(***************************************************************************)
(* RewardDebugCallback._on_step                                            *)
(***************************************************************************)
HasMarker(info) == "episode" \in DOMAIN info

AppendRewardFront(rs, r) == <<r>> \o rs
AppendReward(rs, r) == Append(rs, r)

AppendLengthDropped(ls, l) == ls
AppendLength(ls, l) == Append(ls, l)

ShouldPrintEveryFive(rs) == Len(rs) % 5 = 0
ShouldPrintFirstOnly(rs) == Len(rs) = PrintEvery
ShouldPrint(rs) == Len(rs) % PrintEvery = 0

DebugLine(rs, ls) ==
    [tag |-> "debug",
     avg_reward |-> Format2f(Mean(LastN(rs, Window))),
     avg_length |-> Format1f(Mean(LastN(ls, Window)))]

OnStepReturnWhileShort(self) == Len(self.episode_rewards) < Window
OnStepReturn(self) == TRUE

Returned(self, printed) ==
    [self |-> self, printed |-> printed,
     ret |-> IF OnStepReturn(self) THEN "True" ELSE "False", exc |-> "none"]

Raised(self, e) ==
    [self |-> self, printed |-> <<>>, ret |-> "raised", exc |-> e]

\* The marker's fields are read one at a time, each appended as soon as read.
on_step_append_as_read(self, lc) ==
    LET infos == Get(lc, "infos", <<EmptyDict>>)
    IN  IF Len(infos) = 0 THEN Raised(self, "IndexError")
        ELSE IF ~HasMarker(infos[1]) THEN Returned(self, <<>>)
        ELSE LET episode_info == infos[1]["episode"]
             IN  IF "r" \notin DOMAIN episode_info THEN Raised(self, "KeyError")
                 ELSE LET rs == AppendReward(self.episode_rewards, episode_info["r"])
                      IN  IF "l" \notin DOMAIN episode_info
                          THEN Raised([self EXCEPT !.episode_rewards = rs], "KeyError")
                          ELSE LET ls == AppendLength(self.episode_lengths,
                                                      episode_info["l"])
                               IN  Returned([episode_rewards |-> rs,
                                             episode_lengths |-> ls],
                                            IF ShouldPrint(rs)
                                            THEN <<DebugLine(rs, ls)>> ELSE <<>>)

on_step(self, lc) ==
    LET infos == Get(lc, "infos", <<EmptyDict>>)
    IN  IF Len(infos) = 0 THEN Raised(self, "IndexError")
        ELSE IF ~HasMarker(infos[1]) THEN Returned(self, <<>>)
        ELSE LET episode_info == lc["infos"][1]["episode"]
             IN  IF "r" \notin DOMAIN episode_info THEN Raised(self, "KeyError")
                 ELSE IF "l" \notin DOMAIN episode_info THEN Raised(self, "KeyError")
                 ELSE LET episode_reward == episode_info["r"]
                          episode_length == episode_info["l"]
                          rs == AppendReward(self.episode_rewards, episode_reward)
                          ls == AppendLength(self.episode_lengths, episode_length)
                          after == [episode_rewards |-> rs, episode_lengths |-> ls]
                      IN  Returned(after,
                                   IF ShouldPrint(rs)
                                   THEN <<DebugLine(rs, ls)>> ELSE <<>>)

(***************************************************************************)
(* The step metadata the environment hands to the training loop.           *)
(***************************************************************************)
\* The outcome the n-th completed episode reports when it follows the
\* pattern (reward n, length 10), and the off-pattern outcome.
PatternPayload(n) == [r |-> n, l |-> 10]
OddPayload == [r |-> 0 - 5, l |-> 3]

OddSoFar == Cardinality({i \in 1..Len(episodes) : episodes[i] = OddPayload})

Payloads ==
    {PatternPayload(Len(episodes) + 1)}
        \cup (IF OddSoFar < MaxOdd THEN {OddPayload} ELSE {})

\* Markers that miss the reward field, the length field, or both.
BadPayloads ==
    {[l |-> 10], [r |-> Len(episodes) + 1], EmptyDict}

\* locals of a step in which no episode ended: the infos entry is absent
\* (the .get default applies) or holds one empty info.
PlainLocals == {EmptyDict, [infos |-> <<EmptyDict>>]}

MarkerLocals(p) == [infos |-> <<[episode |-> p]>>]

(***************************************************************************)
(* The script.                                                             *)
(***************************************************************************)
Init ==
    /\ pc = "start"
    /\ exc = "none"
    /\ learnExit = "none"
    /\ fileExists \in BOOLEAN
    /\ startedWithFile = fileExists
    /\ loads = 0
    /\ creates = 0
    /\ saves = 0
    /\ written = 0
    /\ episode_rewards = <<>>
    /\ episode_lengths = <<>>
    /\ locals = EmptyDict
    /\ lastRet = "none"
    /\ out = <<>>
    /\ num_timesteps = 0
    /\ episodes = <<>>

UseExistingAlways(exists) == TRUE
UseExisting(exists) == exists

Banner == <<Line("begin"), Line("target"), Line("watch_unity")>>

tracker == <<episode_rewards, episode_lengths, locals, lastRet, num_timesteps, episodes>>
disk == <<fileExists, startedWithFile>>

\* if os.path.exists(MODEL_PATH): load, else construct; then the banner
Startup ==
    /\ pc = "start"
    /\ IF UseExisting(fileExists)
       THEN /\ loads' = loads + 1
            /\ creates' = creates
            /\ out' = out \o <<Line("loading")>> \o Banner
       ELSE /\ creates' = creates + 1
            /\ loads' = loads
            /\ out' = out \o <<Line("creating")>> \o Banner
    /\ pc' = "learn"
    /\ UNCHANGED <<exc, learnExit, saves, written, tracker, disk>>

\* PPO.load raises (an unreadable artifact): nothing catches it
StartupLoadFails ==
    /\ pc = "start"
    /\ UseExisting(fileExists)
    /\ loads' = loads + 1
    /\ out' = Append(out, Line("loading"))
    /\ exc' = "LoadError"
    /\ pc' = "exit"
    /\ UNCHANGED <<learnExit, creates, saves, written, tracker, disk>>

\* One environment step inside model.learn followed by the notification of
\* the callback with the step's locals.  A callback that returns False ends
\* the training call early; one that raises ends it with the exception.
Notify(lc) ==
    LET res == on_step([episode_rewards |-> episode_rewards,
                        episode_lengths |-> episode_lengths], lc)
    IN  /\ pc = "learn"
        /\ num_timesteps < MaxTimesteps
        /\ locals' = lc
        /\ num_timesteps' = num_timesteps + 1
        /\ episode_rewards' = res.self.episode_rewards
        /\ episode_lengths' = res.self.episode_lengths
        /\ out' = out \o res.printed
        /\ lastRet' = res.ret
        /\ IF res.ret = "raised"
           THEN /\ exc' = res.exc
                /\ learnExit' = res.exc
                /\ pc' = "except"
           ELSE IF res.ret = "False"
           THEN /\ exc' = exc
                /\ learnExit' = "returned"
                /\ pc' = "finally"
           ELSE UNCHANGED <<exc, learnExit, pc>>
        /\ UNCHANGED <<loads, creates, saves, written, disk>>

StepNoMarker(lc) ==
    /\ Notify(lc)
    /\ episodes' = episodes

StepEpisodeEnd(p) ==
    /\ Notify(MarkerLocals(p))
    /\ episodes' = Append(episodes, p)

StepMalformedMarker(p) ==
    /\ Notify(MarkerLocals(p))
    /\ episodes' = Append(episodes, p)

StepNoInfoEntry ==
    /\ Notify([infos |-> <<>>])
    /\ episodes' = episodes

\* The environment adapter raises inside model.learn
EnvFails ==
    /\ pc = "learn"
    /\ exc' = "EnvError"
    /\ learnExit' = "EnvError"
    /\ pc' = "except"
    /\ UNCHANGED <<loads, creates, saves, written, out, tracker, disk>>

\* Ctrl+C while model.learn runs
Interrupt ==
    /\ pc = "learn"
    /\ exc' = "KeyboardInterrupt"
    /\ learnExit' = "KeyboardInterrupt"
    /\ pc' = "except"
    /\ UNCHANGED <<loads, creates, saves, written, out, tracker, disk>>

\* model.learn returns after total_timesteps steps
LearnReturns ==
    /\ pc = "learn"
    /\ num_timesteps = MaxTimesteps
    /\ learnExit' = "returned"
    /\ pc' = "finally"
    /\ UNCHANGED <<exc, loads, creates, saves, written, out, tracker, disk>>

CaughtNever(e) == FALSE
CaughtAll(e) == TRUE
Caught(e) == e = "KeyboardInterrupt"

\* except KeyboardInterrupt: print the notice
ExceptClause ==
    /\ pc = "except"
    /\ IF Caught(exc)
       THEN /\ out' = Append(out, Line("interrupted"))
            /\ exc' = "none"
       ELSE UNCHANGED <<out, exc>>
    /\ pc' = "finally"
    /\ UNCHANGED <<learnExit, loads, creates, saves, written, tracker, disk>>

SaveInFinallyOnlyOnSuccess(e) == e = "none"
SaveInFinally(e) == TRUE

\* finally: model.save(MODEL_PATH); print; then the exception in flight, if
\* any, propagates
Save ==
    /\ pc = "finally"
    /\ IF SaveInFinally(exc)
       THEN /\ saves' = saves + 1
            /\ written' = written + 1
            /\ fileExists' = TRUE
            /\ out' = Append(out, Line("saved"))
       ELSE UNCHANGED <<saves, written, fileExists, out>>
    /\ pc' = "exit"
    /\ UNCHANGED <<exc, learnExit, loads, creates, startedWithFile, tracker>>

\* finally: model.save raises (the write fails); its exception replaces the
\* one in flight
SaveFails ==
    /\ pc = "finally"
    /\ SaveInFinally(exc)
    /\ saves' = saves + 1
    /\ exc' = "SaveError"
    /\ pc' = "exit"
    /\ UNCHANGED <<learnExit, loads, creates, written, out, tracker, disk>>

\* Step metadata that obeys the step protocol.
Next ==
    \/ Startup
    \/ StartupLoadFails
    \/ \E lc \in PlainLocals : StepNoMarker(lc)
    \/ \E p \in Payloads : StepEpisodeEnd(p)
    \/ EnvFails
    \/ Interrupt
    \/ LearnReturns
    \/ ExceptClause
    \/ Save
    \/ SaveFails

Spec == Init /\ [][Next]_vars

\* Step metadata of any shape.
NextAnyMetadata ==
    \/ Next
    \/ \E p \in BadPayloads : StepMalformedMarker(p)
    \/ StepNoInfoEntry

SpecAnyMetadata == Init /\ [][NextAnyMetadata]_vars

(***************************************************************************)
(* Vocabulary of the properties.                                           *)
(***************************************************************************)
\* The step taken is an on-step notification.
Notified == num_timesteps' = num_timesteps + 1

\* The metadata of environment index 0 in locals lc carries 'episode'.
CarriesMarker(lc) ==
    /\ "infos" \in DOMAIN lc
    /\ Len(lc["infos"]) >= 1
    /\ "episode" \in DOMAIN lc["infos"][1]

MarkerPayload(lc) == lc["infos"][1]["episode"]

IsPrefix(s, t) == Len(s) <= Len(t) /\ SubSeq(t, 1, Len(s)) = s

\* s grew by exactly one entry at its end.
GrewByOne(s, t) == Len(t) = Len(s) + 1 /\ IsPrefix(s, t)

IsDebug(ln) == ln.tag = "debug"
DebugLines == SelectSeq(out, IsDebug)

Has(tag) == \E i \in 1..Len(out) : out[i].tag = tag

Upto(a, b) == [i \in 1..(b - a + 1) |-> a + i - 1]

(***************************************************************************)
(* C1: every on-step notification appends one reward and one length if and *)
(* only if the metadata of environment index 0 carries the 'episode'       *)
(* marker; a notification without the marker leaves both histories as they *)
(* were and prints nothing.                                                *)
(***************************************************************************)
C1_AppendIffMarker ==
    [][Notified =>
        IF CarriesMarker(locals')
        THEN /\ GrewByOne(episode_rewards, episode_rewards')
             /\ GrewByOne(episode_lengths, episode_lengths')
        ELSE /\ episode_rewards' = episode_rewards
             /\ episode_lengths' = episode_lengths
             /\ out' = out]_vars

\* One marker was recorded, and a later notification without a marker left
\* the histories alone.
C1_Witness ==
    /\ num_timesteps >= 3
    /\ ~CarriesMarker(locals)
    /\ Len(episode_rewards) = 1
    /\ Len(episode_lengths) = 1
    /\ pc = "learn"

(***************************************************************************)
(* C2 as stated: a notification, with or without a marker, prints a        *)
(* progress line if and only if the history's length after it is a         *)
(* positive multiple of 10.                                                *)
(***************************************************************************)
C2_PrintIffLengthMultiple ==
    [][Notified =>
        ((out' # out) <=>
            (Len(episode_rewards') > 0 /\ Len(episode_rewards') % 10 = 0))]_vars

(***************************************************************************)
(* C2 amended: a notification prints a progress line if and only if it     *)
(* appended an outcome record and the history's length after it is a       *)
(* positive multiple of 10; what it prints is that one line.               *)
(***************************************************************************)
C2_PrintIffAppendedToMultiple ==
    [][Notified =>
        /\ (out' # out) <=>
               /\ Len(episode_rewards') = Len(episode_rewards) + 1
               /\ Len(episode_rewards') % 10 = 0
        /\ out' # out =>
               /\ Len(out') = Len(out) + 1
               /\ IsPrefix(out, out')
               /\ IsDebug(out'[Len(out')])]_vars

\* The tenth record has just been appended and its line is the last output.
C2_Witness ==
    /\ Len(episode_rewards) = 10
    /\ CarriesMarker(locals)
    /\ Len(out) >= 1
    /\ IsDebug(out[Len(out)])
    /\ pc = "learn"

(***************************************************************************)
(* C3: the k-th progress line reports the arithmetic means of entries      *)
(* 10k-9..10k of the reward history and of the length history, not of the  *)
(* full history: rewards 1..10 with lengths all 10 give 5.50 and 10.0, and *)
(* the second line uses entries 11..20 only.                               *)
(***************************************************************************)
C3_MeansOfLastTen ==
    /\ \A k \in 1..Len(DebugLines) :
          /\ 10 * k <= Len(episode_rewards)
          /\ 10 * k <= Len(episode_lengths)
          \* hundredths: 100 * (sum / 10)
          /\ DebugLines[k].avg_reward =
                 10 * SumSeq(SubSeq(episode_rewards, 10 * k - 9, 10 * k))
          \* tenths: 10 * (sum / 10)
          /\ DebugLines[k].avg_length =
                 SumSeq(SubSeq(episode_lengths, 10 * k - 9, 10 * k))
    /\ (/\ Len(episode_rewards) >= 10
        /\ SubSeq(episode_rewards, 1, 10) = Upto(1, 10)
        /\ SubSeq(episode_lengths, 1, 10) = [i \in 1..10 |-> 10])
       => /\ Len(DebugLines) >= 1
          /\ DebugLines[1].avg_reward = 550
          /\ DebugLines[1].avg_length = 100
    /\ (/\ Len(episode_rewards) >= 20
        /\ SubSeq(episode_rewards, 11, 20) = Upto(11, 20)
        /\ SubSeq(episode_lengths, 11, 20) = [i \in 1..10 |-> 10])
       => /\ Len(DebugLines) >= 2
          /\ DebugLines[2].avg_reward = 1550
          /\ DebugLines[2].avg_length = 100

\* Two lines were printed, and the second differs from the mean of all 20
\* entries, in rewards and in lengths.
C3_Witness ==
    /\ Len(DebugLines) = 2
    /\ Len(episode_rewards) = 20
    /\ DebugLines[2].avg_reward * 20 # 100 * SumSeq(episode_rewards)
    /\ DebugLines[2].avg_length * 20 # 10 * SumSeq(episode_lengths)

(***************************************************************************)
(* C4: every on-step notification that returns, returns True, with or      *)
(* without a marker and with or without a printed line; the training call  *)
(* is never ended early by the tracker.                                    *)
(***************************************************************************)
C4_AlwaysContinue ==
    /\ lastRet # "False"
    /\ num_timesteps > 0 => lastRet \in {"True", "raised"}
    /\ learnExit = "returned" => num_timesteps = MaxTimesteps

\* Notifications with a marker, with a printed line and without a marker
\* have all returned, and training goes on.
C4_Witness ==
    /\ lastRet = "True"
    /\ ~CarriesMarker(locals)
    /\ Len(DebugLines) = 1
    /\ Len(episode_rewards) = 10
    /\ pc = "learn"

(***************************************************************************)
(* C5: after notifications of which N carried a marker, both histories     *)
(* have length N and hold the rewards and the lengths of those markers in  *)
(* call order; no step changes or removes an earlier entry.                *)
(***************************************************************************)
C5_HistoriesAreTheMarkers ==
    /\ [](/\ Len(episode_rewards) = Len(episodes)
          /\ Len(episode_lengths) = Len(episodes)
          /\ \A i \in 1..Len(episodes) :
                /\ "r" \in DOMAIN episodes[i]
                /\ "l" \in DOMAIN episodes[i]
                /\ episode_rewards[i] = episodes[i]["r"]
                /\ episode_lengths[i] = episodes[i]["l"])
    /\ [][/\ IsPrefix(episode_rewards, episode_rewards')
          /\ IsPrefix(episode_lengths, episode_lengths')]_vars

\* Markers interleaved with marker-less notifications, one of them off the
\* pattern.
C5_Witness ==
    /\ Len(episodes) = 3
    /\ num_timesteps = 6
    /\ episodes[2] = OddPayload
    /\ episode_rewards = <<1, 0 - 5, 3>>
    /\ episode_lengths = <<10, 3, 10>>

(***************************************************************************)
(* C6: after N markers exactly floor(N/10) progress lines have been        *)
(* printed, each by the notification that brought the count to a multiple  *)
(* of 10; marker-less notifications never print.                           *)
(***************************************************************************)
C6_OneLinePerTenEpisodes ==
    /\ [](Len(DebugLines) = Len(episodes) \div 10)
    /\ [][Len(DebugLines') # Len(DebugLines) =>
             /\ Len(DebugLines') = Len(DebugLines) + 1
             /\ Len(episodes') = Len(episodes) + 1
             /\ Len(episodes') % 10 = 0]_vars

\* 15 markers, one line, and marker-less notifications since.
C6_Witness ==
    /\ Len(episodes) = 15
    /\ Len(DebugLines) = 1
    /\ num_timesteps >= 17
    /\ ~CarriesMarker(locals)

(***************************************************************************)
(* C7: if the artifact exists at startup the driver loads it and           *)
(* constructs nothing; if it is absent the driver constructs a fresh model *)
(* and loads nothing; exactly one of the two happens, once, before         *)
(* training starts.                                                        *)
(***************************************************************************)
C7_LoadOrCreate ==
    /\ pc = "start" => loads = 0 /\ creates = 0 /\ num_timesteps = 0
    /\ pc # "start" =>
          IF startedWithFile
          THEN loads = 1 /\ creates = 0 /\ out[1].tag = "loading"
          ELSE loads = 0 /\ creates = 1 /\ out[1].tag = "creating"
    /\ (pc = "learn" \/ num_timesteps > 0 \/ learnExit # "none") =>
          loads + creates = 1

\* Training runs on a loaded model; the artifact was there at startup.
C7_Witness ==
    /\ pc = "learn"
    /\ startedWithFile
    /\ loads = 1
    /\ creates = 0
    /\ num_timesteps = 2

(***************************************************************************)
(* C8: when the training call returns, and when it is interrupted by the   *)
(* operator, model.save is called exactly once, before the process exits   *)
(* (and writes the artifact unless the write itself fails); on the         *)
(* interrupt path the notice is printed before the save and the interrupt  *)
(* does not propagate.                                                     *)
(***************************************************************************)
C8_SaveOnceOnReturnAndInterrupt ==
    learnExit \in {"returned", "KeyboardInterrupt"} =>
        /\ pc = "exit" =>
              /\ saves = 1
              /\ exc # "KeyboardInterrupt"
              /\ exc \in {"none", "SaveError"}
              /\ exc = "none" <=> written = 1
              /\ written = 1 => fileExists /\ Has("saved")
        /\ pc # "exit" => saves = 0 /\ written = 0
        /\ learnExit = "returned" => ~Has("interrupted")
        /\ (learnExit = "KeyboardInterrupt" /\ pc \in {"finally", "exit"}) =>
              \E i \in 1..Len(out) :
                  /\ out[i].tag = "interrupted"
                  /\ \A j \in 1..Len(out) : out[j].tag = "saved" => i < j

\* Interrupted mid-training after some episodes, saved, exited cleanly.
C8_Witness ==
    /\ pc = "exit"
    /\ learnExit = "KeyboardInterrupt"
    /\ num_timesteps = 5
    /\ Len(episode_rewards) = 2
    /\ saves = 1
    /\ written = 1
    /\ exc = "none"

(***************************************************************************)
(* C9: model.save is called on every exit path of the training call and at *)
(* most once per run; when the training call fails with an error other     *)
(* than an interrupt, the save is attempted exactly once, no notice is     *)
(* printed and the failure propagates; a failure of the save propagates    *)
(* and is not retried.                                                     *)
(***************************************************************************)
TrainingErrors == {"EnvError", "KeyError", "IndexError"}

C9_SaveOnEveryExitPath ==
    /\ saves <= 1
    /\ written <= saves
    /\ (pc = "exit" /\ learnExit # "none") => saves = 1
    /\ learnExit \in TrainingErrors =>
          /\ ~Has("interrupted")
          /\ pc \in {"except", "finally"} => exc = learnExit /\ saves = 0
          /\ pc = "exit" =>
                /\ saves = 1
                /\ written = 1 => exc = learnExit
                /\ written = 0 => exc = "SaveError"
    /\ exc = "SaveError" =>
          /\ pc = "exit"
          /\ saves = 1
          /\ written = 0
          /\ ~Has("saved")

\* A malformed marker failed the training call; the model was saved and the
\* KeyError is what the process dies of.
C9_Witness ==
    /\ pc = "exit"
    /\ learnExit = "KeyError"
    /\ exc = "KeyError"
    /\ saves = 1
    /\ written = 1
    /\ Has("saved")

(***************************************************************************)
(* C10: the two histories have the same length in every reachable state;   *)
(* a notification whose marker lacks the reward field or the length field  *)
(* fails before either append, so both histories stay as they were and     *)
(* nothing is printed.                                                     *)
(***************************************************************************)
C10_HistoriesSameLength ==
    /\ [](Len(episode_rewards) = Len(episode_lengths))
    /\ [][(/\ Notified
           /\ CarriesMarker(locals')
           /\ \/ "r" \notin DOMAIN MarkerPayload(locals')
              \/ "l" \notin DOMAIN MarkerPayload(locals'))
          => /\ episode_rewards' = episode_rewards
             /\ episode_lengths' = episode_lengths
             /\ out' = out
             /\ lastRet' = "raised"
             /\ exc' = "KeyError"]_vars

\* After some episodes, a marker with a reward but no length has failed.
C10_Witness ==
    /\ lastRet = "raised"
    /\ CarriesMarker(locals)
    /\ "r" \in DOMAIN MarkerPayload(locals)
    /\ "l" \notin DOMAIN MarkerPayload(locals)
    /\ Len(episode_rewards) = 2
    /\ Len(episode_lengths) = 2

====
